---- MODULE Spec2Model ----
(***************************************************************************)
(* Model of src/src/main.rs: the Kamino Lend transaction parser.           *)
(*                                                                         *)
(* main() fetches the recent signatures of the program, keeps the          *)
(* successful ones, and for each of them fetches the transaction, rebuilds *)
(* the account list of a V0 message from its static keys and its address   *)
(* lookup tables, and adds the amounts of the flash-loan-borrow and        *)
(* borrow-obligation instructions to four u64 totals and two counters.     *)
(*                                                                         *)
(* Every RPC answer is an input, drawn from a small set in the action that *)
(* awaits it.  A Rust panic (index out of bounds, unwrap of None/Err,      *)
(* arithmetic overflow with overflow checks on) ends the run in            *)
(* pc = "panic".                                                           *)
(*                                                                         *)
(* A byte is an integer 0..255, a Pubkey a sequence of 32 bytes, and a u64 *)
(* four 16-bit limbs, least significant first (TLC's integers are 32 bits  *)
(* wide, and the totals must be able to pass 2^64).                        *)
(***************************************************************************)
EXTENDS Integers, Sequences, FiniteSets, TLC

\* Bounds of the model.
MaxSigs == 1
MaxInstrs == 2

\* ---------------------------------------------------------------- constants
HEADER_LEN == 56
PUBKEY_BYTES == 32
AMOUNT_OFFSET == 8
AMOUNT_BYTES == 8

FLASH_LOAN_DATA_BORROW_SIG == <<135, 231, 52, 167>>
FLASH_LOAN_TOKEN_ACCOUNT_KEY == 4

BORROW_OBLIGATION_DATA_SIG == <<161, 128, 143, 245>>
BORROW_OBLIGATION_TOKEN_ACCOUNT_KEY == 5

\* Pubkey::from_str(SOL_MINT), Pubkey::from_str(USDC_MINT): the base58 strings decoded.
sol_mint_key ==
    <<6, 155, 136, 87, 254, 171, 129, 132, 251, 104, 127, 99, 70, 24, 192, 53,
      218, 196, 57, 220, 26, 235, 59, 85, 152, 160, 240, 0, 0, 0, 0, 1>>

usdc_mint_key ==
    <<198, 250, 122, 243, 190, 219, 173, 58, 61, 101, 243, 106, 171, 201, 116, 49,
      177, 187, 228, 194, 210, 246, 224, 228, 124, 166, 2, 3, 69, 47, 93, 97>>

\* ---------------------------------------------------------------- u64
Limb == 2^16

U64Zero == <<0, 0, 0, 0>>

\* u64::from_le_bytes on an 8-byte array: byte 0 is the least significant.
FromLeBytes(b) == [k \in 1..4 |-> b[2*k - 1] + 256 * b[2*k]]

\* The four limb sums of x + y with their carries; the fifth entry is the carry out.
AddLimbs(x, y) ==
    LET s1 == x[1] + y[1]
        s2 == x[2] + y[2] + (s1 \div Limb)
        s3 == x[3] + y[3] + (s2 \div Limb)
        s4 == x[4] + y[4] + (s3 \div Limb)
    IN  <<s1 % Limb, s2 % Limb, s3 % Limb, s4 % Limb, s4 \div Limb>>

\* `total += amount` on u64: with overflow checks (the debug profile) an overflow
\* panics, without them (the release profile) the sum wraps modulo 2^64.
AddAssign(total, amount, checks) ==
    LET s == AddLimbs(total, amount)
    IN  [panic |-> (s[5] # 0) /\ checks, value |-> SubSeq(s, 1, 4)]

\* ---------------------------------------------------------------- slices
\* slice.starts_with(prefix)
StartsWith(data, prefix) ==
    /\ Len(data) >= Len(prefix)
    /\ SubSeq(data, 1, Len(prefix)) = prefix

RECURSIVE Flatten(_)
Flatten(ss) == IF ss = <<>> THEN <<>> ELSE Head(ss) \o Flatten(Tail(ss))

\* ---------------------------------------------------------------- lookup tables
\* Mutant of AddressesData: the slice starts one byte early.
AddressesDataOneEarly(data) == SubSeq(data, HEADER_LEN, Len(data))

\* &account_info.data[56..]
AddressesData(data) == SubSeq(data, HEADER_LEN + 1, Len(data))

\* addresses_data.len() / 32
NumAddresses(addresses_data) == Len(addresses_data) \div PUBKEY_BYTES

\* The loop over lookup.writable_indexes (and the same loop over readonly_indexes):
\* the 32 bytes at index * 32 are pushed for every index below num_addresses.
RECURSIVE CollectAccounts(_, _)
CollectAccounts(addresses_data, indexes) ==
    IF indexes = <<>> THEN <<>>
    ELSE LET index == Head(indexes)
             start == index * PUBKEY_BYTES
             end   == start + PUBKEY_BYTES
             pushed == IF index < NumAddresses(addresses_data) /\ end <= Len(addresses_data)
                       THEN <<SubSeq(addresses_data, start + 1, end)>>
                       ELSE <<>>
         IN  pushed \o CollectAccounts(addresses_data, Tail(indexes))

\* The match on client.get_account(&lookup.account_key): what one lookup adds to
\* writable_lookup_accounts and to readonly_lookup_accounts.
ParseLookupTable(result, lookup) ==
    IF result.ok /\ Len(result.data) >= HEADER_LEN
    THEN [writable |-> CollectAccounts(AddressesData(result.data), lookup.writable_indexes),
          readonly |-> CollectAccounts(AddressesData(result.data), lookup.readonly_indexes)]
    ELSE [writable |-> <<>>, readonly |-> <<>>]

\* Mutant of ExtendAll: the readonly lookup accounts are appended first.
ExtendAllReadonlyFirst(accounts, writable, readonly) == (accounts \o readonly) \o writable

\* all_accounts after the two extend calls that follow the lookup loop.
ExtendAll(accounts, writable, readonly) == (accounts \o writable) \o readonly

\* ---------------------------------------------------------------- instructions
\* Mutant of MatchBlock: the counter counts only the tracked tokens.
MatchBlockTrackedOnly(ins, accounts, sig, key, usdc_amount, sol_amount, count, checks) ==
    LET same == [panic |-> FALSE, usdc |-> usdc_amount, sol |-> sol_amount, count |-> count]
        boom == [panic |-> TRUE, usdc |-> usdc_amount, sol |-> sol_amount, count |-> count]
    IN  IF ~StartsWith(ins.data, sig) THEN same
        ELSE IF Len(ins.accounts) <= key THEN boom
        ELSE LET reserve_token_index == ins.accounts[key + 1]
             IN  IF reserve_token_index >= Len(accounts) THEN boom
                 ELSE IF Len(ins.data) < AMOUNT_OFFSET THEN boom
                 ELSE LET reserve_token == accounts[reserve_token_index + 1]
                          rest == SubSeq(ins.data, AMOUNT_OFFSET + 1, Len(ins.data))
                      IN  IF Len(rest) # AMOUNT_BYTES THEN boom
                          ELSE LET amount == FromLeBytes(rest)
                                   u == IF reserve_token = usdc_mint_key
                                        THEN AddAssign(usdc_amount, amount, checks)
                                        ELSE [panic |-> FALSE, value |-> usdc_amount]
                                   s == IF reserve_token = sol_mint_key
                                        THEN AddAssign(sol_amount, amount, checks)
                                        ELSE [panic |-> FALSE, value |-> sol_amount]
                               IN  IF u.panic \/ s.panic THEN boom
                                   ELSE [panic |-> FALSE, usdc |-> u.value,
                                         sol |-> s.value,
                                         count |-> IF reserve_token \in {usdc_mint_key, sol_mint_key}
                                                   THEN count + 1 ELSE count]

\* One `if instruction.data.starts_with(SIG) { ... }` block: the index read at
\* accounts[key], the token read at all_accounts[index], the amount read from
\* data[8..] as [u8; 8], the two conditional additions and the counter.  Each
\* out-of-range index, the failed try_into and a checked overflow panic.  (The
\* counter is a u64 that one run cannot bring near 2^64: it is a plain number.)
MatchBlock(ins, accounts, sig, key, usdc_amount, sol_amount, count, checks) ==
    LET same == [panic |-> FALSE, usdc |-> usdc_amount, sol |-> sol_amount, count |-> count]
        boom == [panic |-> TRUE, usdc |-> usdc_amount, sol |-> sol_amount, count |-> count]
    IN  IF ~StartsWith(ins.data, sig) THEN same
        ELSE IF Len(ins.accounts) <= key THEN boom
        ELSE LET reserve_token_index == ins.accounts[key + 1]
             IN  IF reserve_token_index >= Len(accounts) THEN boom
                 ELSE IF Len(ins.data) < AMOUNT_OFFSET THEN boom
                 ELSE LET reserve_token == accounts[reserve_token_index + 1]
                          rest == SubSeq(ins.data, AMOUNT_OFFSET + 1, Len(ins.data))
                      IN  IF Len(rest) # AMOUNT_BYTES THEN boom
                          ELSE LET amount == FromLeBytes(rest)
                                   u == IF reserve_token = usdc_mint_key
                                        THEN AddAssign(usdc_amount, amount, checks)
                                        ELSE [panic |-> FALSE, value |-> usdc_amount]
                                   s == IF reserve_token = sol_mint_key
                                        THEN AddAssign(sol_amount, amount, checks)
                                        ELSE [panic |-> FALSE, value |-> sol_amount]
                               IN  IF u.panic \/ s.panic THEN boom
                                   ELSE [panic |-> FALSE, usdc |-> u.value,
                                         sol |-> s.value, count |-> count + 1]

\* ---------------------------------------------------------------- inputs
\* Pubkeys other than the two mints.
Key(n) == [b \in 1..PUBKEY_BYTES |-> n]

TableA == Key(201)
TableB == Key(202)

\* The chain: the addresses each lookup table holds, and its account data (a header
\* and the addresses).  A fetch answers with a prefix of it (an older or cut-off
\* table) or fails.
TableAddresses(key) ==
    IF key = TableA THEN <<Key(13), usdc_mint_key, Key(14), Key(15)>>
    ELSE <<sol_mint_key, Key(16), Key(17), Key(18)>>

TableData(key) == [b \in 1..HEADER_LEN |-> 255] \o Flatten(TableAddresses(key))

TableLens == {40, 121, 184}

AccountResults(key) ==
    {[ok |-> FALSE, data |-> <<>>]}
    \cup {[ok |-> TRUE, data |-> SubSeq(TableData(key), 1, n)] : n \in TableLens}

LookupA == [account_key |-> TableA, writable_indexes |-> <<1, 0>>, readonly_indexes |-> <<2>>]
LookupB == [account_key |-> TableB, writable_indexes |-> <<0>>, readonly_indexes |-> <<3, 1>>]

Messages ==
    {[account_keys |-> k, address_table_lookups |-> l] :
        k \in {<<Key(11), Key(12)>>},
        l \in {<<>>, <<LookupA>>, <<LookupA, LookupB>>}}

NoMessage == [account_keys |-> <<>>, address_table_lookups |-> <<>>]

\* What get_transaction_with_config and the decoding of its answer can give: an RPC
\* error, an answer decode() returns None for, a legacy message, a V0 message.
\* (The signature strings are the node's own and always parse.)
TransactionResults ==
    {[kind |-> k, message |-> NoMessage, instructions |-> 0] :
        k \in {"rpc_error", "undecodable", "legacy"}}
    \cup {[kind |-> "v0", message |-> m, instructions |-> n] :
            m \in Messages, n \in 0..MaxInstrs}

\* Signature infos: err (the transaction failed) and block_time (<<>> is None).
SignatureInfos ==
    {[err |-> e, block_time |-> t] : e \in BOOLEAN, t \in {<<>>, <<1700000000>>}}

RECURSIVE SeqsUpTo(_, _)
SeqsUpTo(S, n) ==
    IF n = 0 THEN {<<>>}
    ELSE LET shorter == SeqsUpTo(S, n - 1)
         IN  shorter \cup {Append(s, x) : s \in shorter, x \in S}

SignatureResults ==
    {[ok |-> FALSE, value |-> <<>>]}
    \cup {[ok |-> TRUE, value |-> v] : v \in SeqsUpTo(SignatureInfos, MaxSigs)}

\* Instruction payloads: the discriminator, 4 more bytes, the amount.
Padding == <<1, 2, 3, 4>>
OneBillion == <<0, 202, 154, 59, 0, 0, 0, 0>>
MaxAmount == <<255, 255, 255, 255, 255, 255, 255, 255>>

WellFormedData ==
    {FLASH_LOAN_DATA_BORROW_SIG \o Padding \o OneBillion,
     FLASH_LOAN_DATA_BORROW_SIG \o Padding \o MaxAmount,
     BORROW_OBLIGATION_DATA_SIG \o Padding \o OneBillion}

OtherData ==
    {<<>>,
     <<135, 231, 52>>,
     <<135, 231, 52, 168>> \o Padding \o OneBillion,
     FLASH_LOAN_DATA_BORROW_SIG,
     FLASH_LOAN_DATA_BORROW_SIG \o Padding \o OneBillion \o <<9>>,
     BORROW_OBLIGATION_DATA_SIG \o Padding \o <<0, 202, 154, 59>>}

TokenIndexes == {1, 2, 3, 4}

\* The account indexes of an instruction: x at position 4, x + 1 at position 5.
Accounts(x) == <<0, 0, 0, 0, x, x + 1>>

Instructions ==
    {[data |-> d, accounts |-> Accounts(x)] : d \in WellFormedData, x \in TokenIndexes}
    \cup {[data |-> d, accounts |-> Accounts(1)] : d \in OtherData}
    \cup {[data |-> FLASH_LOAN_DATA_BORROW_SIG \o Padding \o OneBillion,
             accounts |-> <<0, 0, 0, 0>>],
            [data |-> BORROW_OBLIGATION_DATA_SIG \o Padding \o OneBillion,
             accounts |-> <<0, 0, 0, 0, 1>>]}

NoInstruction == [data |-> <<>>, accounts |-> <<>>]

\* ---------------------------------------------------------------- state
VARIABLES
    pc,                             \* where main() is
    overflow_checks,                \* the build profile: TRUE for debug, FALSE for release
    successful_signatures,
    block_time_diff,                \* <<>> until line 75 has computed it
    tx,                             \* 1-based position of the for loop over successful_signatures
    msg,                            \* the V0 message of the current transaction
    fetched,                        \* the get_account answers of the current transaction
    all_accounts,
    writable_lookup_accounts,
    readonly_lookup_accounts,
    instructions_left,              \* what the iterator over msg.instructions still holds
    instruction,                    \* the instruction of the current iteration
    flash_loan_borrow_sol_amount,
    flash_loan_borrow_usdc_amount,
    loan_borrow_usdc_amount,
    loan_borrow_sol_amount,
    flash_loan_txs_count,
    loan_txs_count

totals == <<flash_loan_borrow_sol_amount, flash_loan_borrow_usdc_amount,
            loan_borrow_usdc_amount, loan_borrow_sol_amount,
            flash_loan_txs_count, loan_txs_count>>

locals == <<msg, fetched, all_accounts, writable_lookup_accounts,
            readonly_lookup_accounts, instructions_left, instruction>>

vars == <<pc, overflow_checks, successful_signatures, block_time_diff, tx, locals, totals>>

Init ==
    /\ pc = "get_signatures"
    /\ overflow_checks \in BOOLEAN
    /\ successful_signatures = <<>>
    /\ block_time_diff = <<>>
    /\ tx = 1
    /\ msg = NoMessage
    /\ fetched = <<>>
    /\ all_accounts = <<>>
    /\ writable_lookup_accounts = <<>>
    /\ readonly_lookup_accounts = <<>>
    /\ instructions_left = 0
    /\ instruction = NoInstruction
    /\ flash_loan_borrow_sol_amount = U64Zero
    /\ flash_loan_borrow_usdc_amount = U64Zero
    /\ loan_borrow_usdc_amount = U64Zero
    /\ loan_borrow_sol_amount = U64Zero
    /\ flash_loan_txs_count = 0
    /\ loan_txs_count = 0

\* Lines 40-92: the signatures are fetched and filtered, the block times of the
\* first and the last successful one are unwrapped and subtracted.
GetSignatures(result) ==
    /\ pc = "get_signatures"
    /\ LET sucsigs == IF result.ok
                      THEN SelectSeq(result.value, LAMBDA sig_info : ~sig_info.err)
                      ELSE <<>>
       IN  /\ successful_signatures' = sucsigs
           /\ IF sucsigs = <<>>
                 \/ sucsigs[1].block_time = <<>>
                 \/ sucsigs[Len(sucsigs)].block_time = <<>>
              THEN /\ pc' = "panic"
                   /\ UNCHANGED block_time_diff
              ELSE /\ pc' = "tx_loop"
                   /\ block_time_diff' =
                        <<sucsigs[1].block_time[1] - sucsigs[Len(sucsigs)].block_time[1]>>
    /\ UNCHANGED <<overflow_checks, tx, locals, totals>>

\* Lines 96-117: one iteration of the loop over successful_signatures up to the
\* lookup loop.
GetTransaction(result) ==
    /\ pc = "tx_loop"
    /\ tx <= Len(successful_signatures)
    /\ CASE result.kind = "rpc_error" ->
                /\ pc' = "tx_loop"
                /\ tx' = tx + 1
                /\ UNCHANGED locals
         [] result.kind = "undecodable" ->
                /\ pc' = "panic"
                /\ UNCHANGED <<tx, locals>>
         [] result.kind = "legacy" ->
                /\ pc' = "tx_loop"
                /\ tx' = tx + 1
                /\ UNCHANGED locals
         [] result.kind = "v0" ->
                /\ pc' = "lookup_loop"
                /\ msg' = result.message
                /\ instructions_left' = result.instructions
                /\ all_accounts' = result.message.account_keys
                /\ writable_lookup_accounts' = <<>>
                /\ readonly_lookup_accounts' = <<>>
                /\ fetched' = <<>>
                /\ UNCHANGED <<tx, instruction>>
    /\ UNCHANGED <<overflow_checks, successful_signatures, block_time_diff, totals>>

\* Lines 119-158: one iteration of the loop over msg.address_table_lookups.
GetAccount(result) ==
    /\ pc = "lookup_loop"
    /\ Len(fetched) < Len(msg.address_table_lookups)
    /\ LET lookup == msg.address_table_lookups[Len(fetched) + 1]
           parsed == ParseLookupTable(result, lookup)
       IN  /\ result \in AccountResults(lookup.account_key)
           /\ fetched' = Append(fetched, result)
           /\ writable_lookup_accounts' = writable_lookup_accounts \o parsed.writable
           /\ readonly_lookup_accounts' = readonly_lookup_accounts \o parsed.readonly
    /\ UNCHANGED <<pc, overflow_checks, successful_signatures, block_time_diff, tx, msg,
                   all_accounts, instructions_left, instruction, totals>>

\* Lines 160-164: after the lookup loop the writable, then the readonly lookup
\* accounts are appended.
ExtendAccounts ==
    /\ pc = "lookup_loop"
    /\ Len(fetched) = Len(msg.address_table_lookups)
    /\ all_accounts' = ExtendAll(all_accounts, writable_lookup_accounts, readonly_lookup_accounts)
    /\ pc' = "instruction_loop"
    /\ UNCHANGED <<overflow_checks, successful_signatures, block_time_diff, tx, msg, fetched,
                   writable_lookup_accounts, readonly_lookup_accounts, instructions_left,
                   instruction, totals>>

\* Line 166: the loop takes the next instruction of the message.
NextInstruction(ins) ==
    /\ pc = "instruction_loop"
    /\ instructions_left > 0
    /\ instruction' = ins
    /\ instructions_left' = instructions_left - 1
    /\ pc' = "decode"
    /\ UNCHANGED <<overflow_checks, successful_signatures, block_time_diff, tx, msg, fetched,
                   all_accounts, writable_lookup_accounts, readonly_lookup_accounts, totals>>

\* Lines 167-205: the flash-loan block, then the borrow-obligation block.
Decode ==
    /\ pc = "decode"
    /\ LET flash == MatchBlock(instruction, all_accounts, FLASH_LOAN_DATA_BORROW_SIG,
                               FLASH_LOAN_TOKEN_ACCOUNT_KEY, flash_loan_borrow_usdc_amount,
                               flash_loan_borrow_sol_amount, flash_loan_txs_count,
                               overflow_checks)
           loan  == MatchBlock(instruction, all_accounts, BORROW_OBLIGATION_DATA_SIG,
                               BORROW_OBLIGATION_TOKEN_ACCOUNT_KEY, loan_borrow_usdc_amount,
                               loan_borrow_sol_amount, loan_txs_count, overflow_checks)
       IN  IF flash.panic \/ loan.panic
           THEN /\ pc' = "panic"
                /\ UNCHANGED <<instruction, totals>>
           ELSE /\ pc' = "instruction_loop"
                /\ instruction' = NoInstruction
                /\ flash_loan_borrow_usdc_amount' = flash.usdc
                /\ flash_loan_borrow_sol_amount' = flash.sol
                /\ flash_loan_txs_count' = flash.count
                /\ loan_borrow_usdc_amount' = loan.usdc
                /\ loan_borrow_sol_amount' = loan.sol
                /\ loan_txs_count' = loan.count
    /\ UNCHANGED <<overflow_checks, successful_signatures, block_time_diff, tx, msg, fetched,
                   all_accounts, writable_lookup_accounts, readonly_lookup_accounts,
                   instructions_left>>

\* Lines 206-208: the instructions are exhausted; the locals of the iteration are
\* dropped and the loop goes to the next signature.
FinishTransaction ==
    /\ pc = "instruction_loop"
    /\ instructions_left = 0
    /\ pc' = "tx_loop"
    /\ tx' = tx + 1
    /\ msg' = NoMessage
    /\ fetched' = <<>>
    /\ all_accounts' = <<>>
    /\ writable_lookup_accounts' = <<>>
    /\ readonly_lookup_accounts' = <<>>
    /\ UNCHANGED <<overflow_checks, successful_signatures, block_time_diff,
                   instructions_left, instruction, totals>>

\* Lines 210-226: the loop is over, the totals are printed and main returns Ok.
Report ==
    /\ pc = "tx_loop"
    /\ tx > Len(successful_signatures)
    /\ pc' = "done"
    /\ UNCHANGED <<overflow_checks, successful_signatures, block_time_diff, tx, locals, totals>>

Next ==
    \/ \E result \in SignatureResults : GetSignatures(result)
    \/ \E result \in TransactionResults : GetTransaction(result)
    \/ \E result \in AccountResults(TableA) \cup AccountResults(TableB) : GetAccount(result)
    \/ ExtendAccounts
    \/ \E ins \in Instructions : NextInstruction(ins)
    \/ Decode
    \/ FinishTransaction
    \/ Report

Spec == Init /\ [][Next]_vars

\* ---------------------------------------------------------------- reading the state
\* What a lookup-table payload holds: position p is held when its 32 bytes end
\* within the payload, and the identity there is the bytes from offset 56 + 32 p.
HoldsPosition(data, p) == 56 + p * 32 + 32 <= Len(data)

IdentityAt(data, p) == [b \in 1..32 |-> data[56 + p * 32 + b]]

ResolvedIdentities(data, positions) ==
    LET held == SelectSeq(positions, LAMBDA p : HoldsPosition(data, p))
    IN  [k \in 1..Len(held) |-> IdentityAt(data, held[k])]

\* What the answer to one table fetch contributes for a list of positions.
Contribution(result, positions) ==
    IF result.ok /\ Len(result.data) >= 56 THEN ResolvedIdentities(result.data, positions)
    ELSE <<>>

WritableContributions ==
    [k \in 1..Len(fetched) |->
        Contribution(fetched[k], msg.address_table_lookups[k].writable_indexes)]

ReadonlyContributions ==
    [k \in 1..Len(fetched) |->
        Contribution(fetched[k], msg.address_table_lookups[k].readonly_indexes)]

InTransaction == pc \in {"lookup_loop", "instruction_loop", "decode"}

InInstructions == pc \in {"instruction_loop", "decode"}

\* The instruction being decoded: its kind, the position of its token account, the
\* index found there, and the amount its bytes 8..15 encode.
IsFlashLoan == StartsWith(instruction.data, <<135, 231, 52, 167>>)

IsBorrowObligation == StartsWith(instruction.data, <<161, 128, 143, 245>>)

IsKnown == IsFlashLoan \/ IsBorrowObligation

TokenPosition == IF IsFlashLoan THEN 4 ELSE 5

HasTokenIndex == Len(instruction.accounts) > TokenPosition

TokenIndex == instruction.accounts[TokenPosition + 1]

IndexInRange == HasTokenIndex /\ TokenIndex < Len(all_accounts)

TokenIdentity == all_accounts[TokenIndex + 1]

EncodedAmount == FromLeBytes(SubSeq(instruction.data, 9, 16))

\* The total of the instruction's kind and of a token, before and after the step.
TotalOf(token) ==
    IF IsFlashLoan
    THEN (IF token = usdc_mint_key THEN flash_loan_borrow_usdc_amount
          ELSE flash_loan_borrow_sol_amount)
    ELSE (IF token = usdc_mint_key THEN loan_borrow_usdc_amount
          ELSE loan_borrow_sol_amount)

TotalOfNext(token) ==
    IF IsFlashLoan
    THEN (IF token = usdc_mint_key THEN flash_loan_borrow_usdc_amount'
          ELSE flash_loan_borrow_sol_amount')
    ELSE (IF token = usdc_mint_key THEN loan_borrow_usdc_amount'
          ELSE loan_borrow_sol_amount')

Tracked(token) == token \in {usdc_mint_key, sol_mint_key}

Amounts == <<flash_loan_borrow_sol_amount, flash_loan_borrow_usdc_amount,
             loan_borrow_usdc_amount, loan_borrow_sol_amount>>

Counts == <<flash_loan_txs_count, loan_txs_count>>

\* x + y = z as natural numbers: the limbs add up with no carry out.
ExactSum(x, y, z) == AddLimbs(x, y) = z \o <<0>>

\* The addition the instruction asks for passes 2^64.
Overflows ==
    /\ IndexInRange
    /\ Tracked(TokenIdentity)
    /\ AddLimbs(TotalOf(TokenIdentity), EncodedAmount)[5] # 0

\* ---------------------------------------------------------------- C1
\* C1: while the instructions of a V0 transaction are processed, all_accounts is
\* the static account keys, then the resolved writable identities of every table
\* reference in reference order, then the resolved readonly identities of every
\* table reference in reference order.
C1_CanonicalSequence ==
    InInstructions =>
        all_accounts = msg.account_keys \o Flatten(WritableContributions)
                                        \o Flatten(ReadonlyContributions)

\* Two tables that each give writable and readonly identities: the writable one of
\* the second table comes before the readonly one of the first.
C1_Witness ==
    /\ pc = "decode"
    /\ Len(fetched) = 2
    /\ all_accounts = <<Key(11), Key(12), usdc_mint_key, Key(13), sol_mint_key,
                        Key(14), Key(18), Key(16)>>

\* ---------------------------------------------------------------- C2
RECURSIVE SumLen(_, _, _)
SumLen(lookups, field, n) ==
    IF n = 0 THEN 0 ELSE Len(lookups[n][field]) + SumLen(lookups, field, n - 1)

\* The indexes the identities of table reference k are meant to occupy.
WritableRange(k) ==
    LET l == msg.address_table_lookups
        from == Len(msg.account_keys) + SumLen(l, "writable_indexes", k - 1)
    IN  from .. (from + Len(l[k].writable_indexes) - 1)

ReadonlyRange(k) ==
    LET l == msg.address_table_lookups
        from == Len(msg.account_keys) + SumLen(l, "writable_indexes", Len(l))
                    + SumLen(l, "readonly_indexes", k - 1)
    IN  from .. (from + Len(l[k].readonly_indexes) - 1)

InFailedTableRange ==
    /\ HasTokenIndex
    /\ \E k \in 1..Len(fetched) :
          /\ ~fetched[k].ok
          /\ TokenIndex \in WritableRange(k) \cup ReadonlyRange(k)

\* C2: an instruction of a known kind whose token-account index lies in the range
\* of a table whose fetch failed is unresolved: it is counted as no match and adds
\* to no total (it is not resolved to an identity of another table or position).
C2_FailedTableUnresolved ==
    [][(pc = "decode" /\ IsKnown /\ InFailedTableRange)
          => (Counts' = Counts /\ Amounts' = Amounts)]_vars

\* ---------------------------------------------------------------- C3
\* C3: the writable and the readonly lookup accounts are, table by table and in the
\* order of the requested positions, the 32-byte entries at offset 56 + 32 p of the
\* positions p the payload holds; the other positions, and every position of a
\* payload shorter than the header, give nothing.
C3_ResolveWithinPayload ==
    InTransaction =>
        /\ writable_lookup_accounts = Flatten(WritableContributions)
        /\ readonly_lookup_accounts = Flatten(ReadonlyContributions)

\* A payload of 121 bytes holds positions 0 and 1: the writable positions <<1, 0>>
\* resolve in that order and the readonly position 2 is skipped; then a payload
\* shorter than the header gives nothing and the run goes on.
C3_Witness ==
    /\ pc = "instruction_loop"
    /\ Len(fetched) = 2
    /\ Len(fetched[1].data) = 121
    /\ fetched[2].ok /\ Len(fetched[2].data) = 40
    /\ writable_lookup_accounts = <<usdc_mint_key, Key(13)>>
    /\ readonly_lookup_accounts = <<>>

\* ---------------------------------------------------------------- C4
\* C4: an instruction of a known kind whose token-account index is the last index of
\* all_accounts resolves (it is counted); one whose index is len(all_accounts) or
\* more is skipped: no total and no counter changes and the run goes on.  (The
\* payloads are the well-formed ones of 16 bytes, so that only the index decides.)
C4_IndexBoundary ==
    [][(pc = "decode" /\ IsKnown /\ HasTokenIndex)
          => /\ (TokenIndex = Len(all_accounts) - 1 /\ Len(instruction.data) = 16
                    /\ ~Overflows)
                  => (pc' = "instruction_loop" /\ Counts' # Counts)
             /\ (TokenIndex >= Len(all_accounts) /\ Len(instruction.data) = 16)
                  => (pc' = "instruction_loop" /\ Counts' = Counts /\ Amounts' = Amounts)]_vars

\* ---------------------------------------------------------------- C5
\* C5: every payload that starts with a known discriminator and is 16 bytes or
\* longer is matched, and the amount added for a tracked token is the little-endian
\* value of bytes 8..15, whatever follows them.
C5_PrefixMatch ==
    [][(pc = "decode" /\ IsKnown /\ Len(instruction.data) >= 16 /\ IndexInRange
            /\ ~Overflows)
          => /\ pc' = "instruction_loop"
             /\ Counts' # Counts
             /\ Tracked(TokenIdentity)
                  => ExactSum(TotalOf(TokenIdentity), EncodedAmount,
                              TotalOfNext(TokenIdentity))]_vars

\* ---------------------------------------------------------------- C6
\* C6: an instruction of a known kind whose payload is shorter than 16 bytes is
\* skipped: no total and no counter changes, and the next instruction is processed.
\* (The token-account index is in range, so that only the payload decides.)
C6_TruncatedPayload ==
    [][(pc = "decode" /\ IsKnown /\ IndexInRange /\ Len(instruction.data) < 16)
          => (pc' = "instruction_loop" /\ Counts' = Counts /\ Amounts' = Amounts)]_vars

\* ---------------------------------------------------------------- C7
\* C7: a failure on one transaction or instruction never stops the run: once the
\* loop over the successful signatures is entered, there is always a next step to
\* take until the final report is made.
C7_RunReachesReport == (block_time_diff # <<>> /\ pc # "done") => ENABLED Next

\* ---------------------------------------------------------------- C8
\* C8: a step never leaves a total that is not the exact sum of the total before
\* and the amount added; when the sum does not fit, the run fails instead.
C8_NoSilentWrap ==
    [][(pc = "decode" /\ Amounts' # Amounts)
          => \A n \in 1..4 :
                \/ Amounts'[n] = Amounts[n]
                \/ ExactSum(Amounts[n], EncodedAmount, Amounts'[n])]_vars

\* ---------------------------------------------------------------- C9
Resolves == IsKnown /\ IndexInRange /\ Len(instruction.data) = 16

\* C9: an instruction that matches a discriminator and resolves adds 1 to the
\* counter of its kind, tracked token or not, adds its amount to the total of its
\* kind and token when the token is tracked, and changes no other total and not
\* the other counter; an instruction that matches no discriminator changes nothing.
C9_FrameOfMatch ==
    [][(pc = "decode")
          => /\ (Resolves /\ ~Overflows)
                  => /\ pc' = "instruction_loop"
                     /\ flash_loan_txs_count' =
                            flash_loan_txs_count + (IF IsFlashLoan THEN 1 ELSE 0)
                     /\ loan_txs_count' = loan_txs_count + (IF IsFlashLoan THEN 0 ELSE 1)
                     /\ \A token \in {usdc_mint_key, sol_mint_key} :
                            IF token = TokenIdentity
                            THEN TotalOfNext(token) =
                                    SubSeq(AddLimbs(TotalOf(token), EncodedAmount), 1, 4)
                            ELSE TotalOfNext(token) = TotalOf(token)
                     /\ IF IsFlashLoan
                        THEN /\ loan_borrow_usdc_amount' = loan_borrow_usdc_amount
                             /\ loan_borrow_sol_amount' = loan_borrow_sol_amount
                        ELSE /\ flash_loan_borrow_usdc_amount' = flash_loan_borrow_usdc_amount
                             /\ flash_loan_borrow_sol_amount' = flash_loan_borrow_sol_amount
             /\ ~IsKnown
                  => (pc' = "instruction_loop" /\ Counts' = Counts /\ Amounts' = Amounts)]_vars

\* A flash loan of an untracked token and a borrow of 1,000,000,000 USDC: both are
\* counted, and only the borrow's USDC total has changed.
C9_Witness ==
    /\ pc = "instruction_loop"
    /\ flash_loan_txs_count = 1
    /\ loan_txs_count = 1
    /\ loan_borrow_usdc_amount = <<51712, 15258, 0, 0>>
    /\ flash_loan_borrow_usdc_amount = U64Zero
    /\ flash_loan_borrow_sol_amount = U64Zero
    /\ loan_borrow_sol_amount = U64Zero

\* ---------------------------------------------------------------- C10
\* C10: a run with no successful signature does not crash: it goes on to the loop
\* over no transaction and to the report, with every total and counter zero.
C10_NoSignatures ==
    (pc # "get_signatures" /\ successful_signatures = <<>>)
        => /\ pc \in {"tx_loop", "done"}
           /\ Amounts = <<U64Zero, U64Zero, U64Zero, U64Zero>>
           /\ Counts = <<0, 0>>

====
